---- MODULE Spec2Model ----
(***************************************************************************)
(* Circuit breaker of src/breaker/circuit_break.go.                        *)
(*                                                                         *)
(* The breaker is a record of atomically accessed words (status,           *)
(* requestVolume, errorVolume) shared by the goroutines that report        *)
(* requests and errors, the goroutine of the window-reset ticker           *)
(* (resetRefreshInterval) and one goroutine per armed sleep-window timer   *)
(* (waitForSleepWindow).  Every action below is one atomic memory          *)
(* operation of one goroutine together with the local computation that     *)
(* follows it, so every interleaving the Go memory model allows for the    *)
(* sync/atomic calls is a behaviour of the model.                          *)
(***************************************************************************)
EXTENDS Integers, Naturals, Sequences, FiniteSets, TLC

(***************************************************************************)
(* Bounds of the model.                                                    *)
(***************************************************************************)
\* largest n passed to ReportRequestN / ReportErrorN
MaxN == 1
\* cap on requestVolume and errorVolume (the uint32 counters never wrap here)
MaxVolume == 2
\* cap on the number of live waitForSleepWindow goroutines
MaxTimers == 2
\* c.sleepWindow, in clock ticks
SleepWindow == 1

\* c.closeConfig.SuccessVolumeThreshold
SuccessVolumeThreshold == 1

\* the goroutines that call ReportRequestN / ReportErrorN
Reporters == {"r1", "r2"}
\* the <<RequestVolumeThreshold, ErrorThresholdPercent>> handed to WithOpenConfig
OpenConfigs == {<<1, 100>>, <<2, 50>>}

(***************************************************************************)
(* Program constants.                                                      *)
(***************************************************************************)
CircuitBreakerStatusClosed == 1
CircuitBreakerStatusOpen == 2
CircuitBreakerStatusHalfOpen == 3

errNil == "nil"
errTooManyErrors == "too many errors"
errCircuitBreakerClosed == "circult breaker is closed"

(***************************************************************************)
(* float32 arithmetic of WithOpenConfig and getCurErrorQuorm.              *)
(* A positive float32 is <<m, k>>, standing for m / 2^k with               *)
(* 2^23 <= m < 2^24 (24 significant bits); zero is <<0, 0>>.  Results are  *)
(* rounded to nearest, ties to even, as IEEE 754 does.                     *)
(***************************************************************************)
RECURSIVE Pow2(_)
Pow2(k) == IF k = 0 THEN 1 ELSE 2 * Pow2(k - 1)

F32Min == Pow2(23)
F32Max == Pow2(24)

\* num / den rounded to the nearest integer, ties to even
RoundHalfEven(num, den) ==
    LET q == num \div den
        r == num % den
    IN  IF 2 * r < den THEN q
        ELSE IF 2 * r > den THEN q + 1
        ELSE IF q % 2 = 0 THEN q ELSE q + 1

\* least k with p * 2^k / q >= 2^23
RECURSIVE F32QuotExp(_, _, _)
F32QuotExp(p, q, k) ==
    IF p * Pow2(k) >= q * F32Min THEN k ELSE F32QuotExp(p, q, k + 1)

\* float32(p) / float32(q) for small naturals p, q with q > 0
F32Quot(p, q) ==
    IF p = 0 THEN <<0, 0>>
    ELSE LET k == F32QuotExp(p, q, 0)
             m == RoundHalfEven(p * Pow2(k), q)
         IN  IF m = F32Max THEN <<F32Min, k - 1>> ELSE <<m, k>>

\* least j with x / 2^j < 2^24
RECURSIVE F32Shift(_, _)
F32Shift(x, j) ==
    IF x < F32Max * Pow2(j) THEN j ELSE F32Shift(x, j + 1)

\* uint32(float32(r) * f): the float32 product, then truncation toward zero
F32MulToUint32(r, f) ==
    LET x  == r * f[1]
        j  == F32Shift(x, 0)
        m  == RoundHalfEven(x, Pow2(j))
        k  == f[2]
    IN  IF x = 0 THEN 0
        ELSE IF k >= j THEN m \div Pow2(k - j)
        ELSE m * Pow2(j - k)

\* uint32(float32(volume) * (float32(percent) / float32(100)))
PercentOf(volume, percent) == F32MulToUint32(volume, F32Quot(percent, 100))


(***************************************************************************)
(* State.                                                                  *)
(***************************************************************************)
VARIABLES
    status,          \* c.status
    requestVolume,   \* c.requestVolume
    errorVolume,     \* c.errorVolume
    openConfig,      \* c.openConfig, fixed by New
    closed,          \* c.closeChan has been closed
    panicked,        \* the process died of a runtime panic
    pc,              \* where each reporter is in its call
    arg,             \* the n of the call in progress
    v,               \* the local v of addErrorRequest / the sum returned by AddUint32
    ret,             \* the call that returned in the last step: who, op, err
    tickerPc,        \* where the resetRefreshInterval goroutine is
    timerNew,        \* waitForSleepWindow goroutines that have not yet called NewTimer
    timerWait,       \* waitForSleepWindow goroutines in select, by ticks left on their timer
    sinceOpen,       \* ticks since the status last changed to Open (at most SleepWindow)
    callback,        \* c.callback is set (WithCallback)
    callbackCalls,   \* how many times c.callback has been invoked
    reportedRequests, \* the sum of the n added to c.requestVolume while that is
                      \* observed: -1 when it is not, and once a window was reset
    reportedErrors   \* the same for c.errorVolume

vars == <<status, requestVolume, errorVolume, openConfig, closed, panicked, pc, arg, v,
          ret, tickerPc, timerNew, timerWait, sinceOpen, callback, callbackCalls,
          reportedRequests, reportedErrors>>

NoReturn == [who |-> "none", op |-> "none", err |-> "none"]

\* WithOpenConfig: the configuration with its precomputed errorVolumeThreshold
WithOpenConfig(threshold, percent) ==
    [ RequestVolumeThreshold |-> threshold,
      ErrorThresholdPercent  |-> percent,
      errorVolumeThreshold   |-> PercentOf(threshold, percent) ]

\* PercentOf, tabulated over the volumes and percentages of the model
PercentTable ==
    [percent \in {oc[2] : oc \in OpenConfigs} |->
        [volume \in 0..(MaxVolume + MaxN) |-> PercentOf(volume, percent)]]

\* getCurErrorQuorm, on the requestVolume it loads
getCurErrorQuorm(volume) == PercentTable[openConfig.ErrorThresholdPercent][volume]

NumTimers ==
    LET RECURSIVE Sum(_)
        Sum(i) == IF i < 0 THEN 0 ELSE timerWait[i] + Sum(i - 1)
    IN  timerNew + Sum(SleepWindow)

\* New: a Closed breaker with zeroed counters; the ticker goroutine is started.
\* callbacks: whether the options include WithCallback; sums: 0 where the
\* reported n are summed up from the start, -1 where they are not
New(configs, callbacks, sums) ==
    /\ status = CircuitBreakerStatusClosed
    /\ requestVolume = 0
    /\ errorVolume = 0
    /\ \E oc \in configs : openConfig = WithOpenConfig(oc[1], oc[2])
    /\ closed = FALSE
    /\ panicked = FALSE
    /\ pc = [r \in Reporters |-> "idle"]
    /\ arg = [r \in Reporters |-> 0]
    /\ v = [r \in Reporters |-> 0]
    /\ ret = NoReturn
    /\ tickerPc = "select"
    /\ timerNew = 0
    /\ timerWait = [i \in 0..SleepWindow |-> 0]
    /\ sinceOpen = SleepWindow
    /\ callback \in callbacks
    /\ callbackCalls = 0
    /\ reportedRequests = sums
    /\ reportedErrors = sums

Init == New({<<2, 50>>}, {TRUE}, -1)

SeqInit == New(OpenConfigs, BOOLEAN, -1)

CountInit == New({<<2, 50>>}, {TRUE}, 0)

(***************************************************************************)
(* Bookkeeping shared by the actions.                                      *)
(***************************************************************************)
\* the clock of the most recent entry into Open
Entered(old, new) ==
    IF old # CircuitBreakerStatusOpen /\ new = CircuitBreakerStatusOpen
    THEN 0 ELSE sinceOpen

Return(r, op, err) ==
    /\ pc' = [pc EXCEPT ![r] = "idle"]
    /\ arg' = [arg EXCEPT ![r] = 0]
    /\ v' = [v EXCEPT ![r] = 0]
    /\ ret' = [who |-> r, op |-> op, err |-> err]

Goto(r, label) ==
    /\ pc' = [pc EXCEPT ![r] = label]
    /\ ret' = NoReturn

\* the sum of the n that atomic.AddUint32 has added to a counter, kept until
\* the first window reset (-1 from then on); sums above MaxVolume are not
\* told apart
Counted(sum, n) ==
    IF sum < 0 THEN sum
    ELSE IF sum + n > MaxVolume THEN MaxVolume + 1 ELSE sum + n

(***************************************************************************)
(* ReportRequestN and addRequest.                                          *)
(***************************************************************************)
\* ReportRequestN(n): the closeChan check, then the call of addRequest
ReportRequestN(r, n) ==
    /\ pc[r] = "idle"
    /\ IF closed
       THEN /\ Return(r, "ReportRequestN", errCircuitBreakerClosed)
       ELSE /\ Goto(r, "request_load")
            /\ arg' = [arg EXCEPT ![r] = n]
            /\ UNCHANGED v
    /\ UNCHANGED <<status, requestVolume, errorVolume, openConfig, callback, callbackCalls,
                   reportedRequests, reportedErrors, closed, panicked,
                   tickerPc, timerNew, timerWait, sinceOpen>>

\* AddRequestLoad with the Open case of the switch missing
AddRequestLoadWithoutOpenCase(r) ==
    /\ pc[r] = "request_load"
    /\ Goto(r, "request_add")
    /\ UNCHANGED <<arg, v>>
    /\ UNCHANGED <<status, requestVolume, errorVolume, openConfig, callback, callbackCalls,
                   reportedRequests, reportedErrors, closed, panicked,
                   tickerPc, timerNew, timerWait, sinceOpen>>

\* addRequest: status := atomic.LoadInt32(&c.status) and the switch on it
AddRequestLoad(r) ==
    /\ pc[r] = "request_load"
    /\ IF status = CircuitBreakerStatusOpen
       THEN /\ Return(r, "ReportRequestN", errTooManyErrors)
       ELSE /\ Goto(r, "request_add")
            /\ UNCHANGED <<arg, v>>
    /\ UNCHANGED <<status, requestVolume, errorVolume, openConfig, callback, callbackCalls,
                   reportedRequests, reportedErrors, closed, panicked,
                   tickerPc, timerNew, timerWait, sinceOpen>>

\* addRequest: atomic.AddUint32(&c.requestVolume, n)
AddRequestAdd(r) ==
    /\ pc[r] = "request_add"
    /\ requestVolume + arg[r] <= MaxVolume
    /\ requestVolume' = requestVolume + arg[r]
    /\ v' = [v EXCEPT ![r] = requestVolume + arg[r]]
    /\ arg' = [arg EXCEPT ![r] = 0]
    /\ reportedRequests' = Counted(reportedRequests, arg[r])
    /\ Goto(r, "request_store")
    /\ UNCHANGED <<status, errorVolume, openConfig, callback, callbackCalls,
                   reportedErrors, closed, panicked,
                   tickerPc, timerNew, timerWait, sinceOpen>>

\* addRequest: atomic.StoreUint32(&c.requestVolume, <the sum>) and return nil
AddRequestStore(r) ==
    /\ pc[r] = "request_store"
    /\ requestVolume' = v[r]
    /\ Return(r, "ReportRequestN", errNil)
    /\ UNCHANGED <<status, errorVolume, openConfig, callback, callbackCalls,
                   reportedRequests, reportedErrors, closed, panicked,
                   tickerPc, timerNew, timerWait, sinceOpen>>

(***************************************************************************)
(* ReportErrorN and addErrorRequest.                                       *)
(***************************************************************************)
\* ReportErrorN with addErrorRequest lacking its n == 0 test
ReportErrorNWithoutZeroTest(r, n) ==
    /\ pc[r] = "idle"
    /\ IF closed
       THEN /\ Return(r, "ReportErrorN", errCircuitBreakerClosed)
       ELSE /\ Goto(r, "error_load")
            /\ arg' = [arg EXCEPT ![r] = n]
            /\ UNCHANGED v
    /\ UNCHANGED <<status, requestVolume, errorVolume, openConfig, callback, callbackCalls,
                   reportedRequests, reportedErrors, closed, panicked,
                   tickerPc, timerNew, timerWait, sinceOpen>>

\* ReportErrorN without its select on c.closeChan
ReportErrorNWithoutCloseCheck(r, n) ==
    /\ pc[r] = "idle"
    /\ IF n = 0
       THEN /\ Return(r, "ReportErrorN", errNil)
       ELSE /\ Goto(r, "error_load")
            /\ arg' = [arg EXCEPT ![r] = n]
            /\ UNCHANGED v
    /\ UNCHANGED <<status, requestVolume, errorVolume, openConfig, callback, callbackCalls,
                   reportedRequests, reportedErrors, closed, panicked,
                   tickerPc, timerNew, timerWait, sinceOpen>>

\* ReportErrorN(n): the closeChan check, then addErrorRequest up to its n == 0 test
ReportErrorN(r, n) ==
    /\ pc[r] = "idle"
    /\ IF closed
       THEN /\ Return(r, "ReportErrorN", errCircuitBreakerClosed)
       ELSE IF n = 0
       THEN /\ Return(r, "ReportErrorN", errNil)
       ELSE /\ Goto(r, "error_load")
            /\ arg' = [arg EXCEPT ![r] = n]
            /\ UNCHANGED v
    /\ UNCHANGED <<status, requestVolume, errorVolume, openConfig, callback, callbackCalls,
                   reportedRequests, reportedErrors, closed, panicked,
                   tickerPc, timerNew, timerWait, sinceOpen>>

\* addErrorRequest: status := atomic.LoadInt32(&c.status) and the switch on it
AddErrorLoad(r) ==
    /\ pc[r] = "error_load"
    /\ IF status = CircuitBreakerStatusOpen
       THEN /\ Return(r, "ReportErrorN", errNil)
       ELSE /\ Goto(r, IF status = CircuitBreakerStatusHalfOpen
                       THEN "halfopen_store" ELSE "error_add")
            /\ arg' = [arg EXCEPT ![r] = IF status = CircuitBreakerStatusHalfOpen
                                         THEN 0 ELSE @]
            /\ UNCHANGED v
    /\ UNCHANGED <<status, requestVolume, errorVolume, openConfig, callback, callbackCalls,
                   reportedRequests, reportedErrors, closed, panicked,
                   tickerPc, timerNew, timerWait, sinceOpen>>

\* case HalfOpen: atomic.StoreInt32(&c.status, CircuitBreakerStatusOpen)
HalfOpenStore(r) ==
    /\ pc[r] = "halfopen_store"
    /\ status' = CircuitBreakerStatusOpen
    /\ sinceOpen' = Entered(status, CircuitBreakerStatusOpen)
    /\ Goto(r, "halfopen_go")
    /\ UNCHANGED <<requestVolume, errorVolume, openConfig, callback, callbackCalls,
                   reportedRequests, reportedErrors, closed, panicked, arg, v,
                   tickerPc, timerNew, timerWait>>

\* case HalfOpen: go c.waitForSleepWindow() and return
HalfOpenGo(r) ==
    /\ pc[r] = "halfopen_go"
    /\ NumTimers < MaxTimers
    /\ timerNew' = timerNew + 1
    /\ Return(r, "ReportErrorN", errNil)
    /\ UNCHANGED <<status, requestVolume, errorVolume, openConfig, callback, callbackCalls,
                   reportedRequests, reportedErrors, closed, panicked,
                   tickerPc, timerWait, sinceOpen>>

\* case Closed: v := atomic.AddUint32(&c.errorVolume, n) and
\* the first conjunct, v >= c.openConfig.errorVolumeThreshold
AddErrorAdd(r) ==
    /\ pc[r] = "error_add"
    /\ errorVolume + arg[r] <= MaxVolume
    /\ errorVolume' = errorVolume + arg[r]
    /\ v' = [v EXCEPT ![r] = errorVolume + arg[r]]
    /\ arg' = [arg EXCEPT ![r] = 0]
    /\ Goto(r, IF errorVolume + arg[r] >= openConfig.errorVolumeThreshold
               THEN "check_volume" ELSE "error_store")
    /\ reportedErrors' = Counted(reportedErrors, arg[r])
    /\ UNCHANGED <<status, requestVolume, openConfig, callback, callbackCalls,
                   reportedRequests, closed, panicked,
                   tickerPc, timerNew, timerWait, sinceOpen>>

\* CheckVolume with < for <=
CheckVolumeStrict(r) ==
    /\ pc[r] = "check_volume"
    /\ Goto(r, IF openConfig.RequestVolumeThreshold < requestVolume
               THEN "check_quorum" ELSE "error_store")
    /\ UNCHANGED <<status, requestVolume, errorVolume, openConfig, callback, callbackCalls,
                   reportedRequests, reportedErrors, closed, panicked,
                   arg, v, tickerPc, timerNew, timerWait, sinceOpen>>

\* the second conjunct: RequestVolumeThreshold <= atomic.LoadUint32(&c.requestVolume)
CheckVolume(r) ==
    /\ pc[r] = "check_volume"
    /\ Goto(r, IF openConfig.RequestVolumeThreshold <= requestVolume
               THEN "check_quorum" ELSE "error_store")
    /\ UNCHANGED <<status, requestVolume, errorVolume, openConfig, callback, callbackCalls,
                   reportedRequests, reportedErrors, closed, panicked,
                   arg, v, tickerPc, timerNew, timerWait, sinceOpen>>

\* CheckQuorum with > for >=
CheckQuorumStrict(r) ==
    /\ pc[r] = "check_quorum"
    /\ Goto(r, IF v[r] > getCurErrorQuorm(requestVolume)
               THEN "open_store" ELSE "error_store")
    /\ v' = [v EXCEPT ![r] = IF v[r] > getCurErrorQuorm(requestVolume) THEN 0 ELSE @]
    /\ UNCHANGED <<status, requestVolume, errorVolume, openConfig, callback, callbackCalls,
                   reportedRequests, reportedErrors, closed, panicked,
                   arg, tickerPc, timerNew, timerWait, sinceOpen>>

\* the third conjunct: v >= c.getCurErrorQuorm(), which loads requestVolume again
CheckQuorum(r) ==
    /\ pc[r] = "check_quorum"
    /\ Goto(r, IF v[r] >= getCurErrorQuorm(requestVolume)
               THEN "open_store" ELSE "error_store")
    /\ v' = [v EXCEPT ![r] = IF v[r] >= getCurErrorQuorm(requestVolume) THEN 0 ELSE @]
    /\ UNCHANGED <<status, requestVolume, errorVolume, openConfig, callback, callbackCalls,
                   reportedRequests, reportedErrors, closed, panicked,
                   arg, tickerPc, timerNew, timerWait, sinceOpen>>

\* closed => open: atomic.StoreInt32(&c.status, CircuitBreakerStatusOpen)
OpenStore(r) ==
    /\ pc[r] = "open_store"
    /\ status' = CircuitBreakerStatusOpen
    /\ sinceOpen' = Entered(status, CircuitBreakerStatusOpen)
    /\ Goto(r, "open_go")
    /\ UNCHANGED <<requestVolume, errorVolume, openConfig, callback, callbackCalls,
                   reportedRequests, reportedErrors, closed, panicked, arg, v,
                   tickerPc, timerNew, timerWait>>

\* closed => open: go c.waitForSleepWindow() and return
OpenGo(r) ==
    /\ pc[r] = "open_go"
    /\ NumTimers < MaxTimers
    /\ timerNew' = timerNew + 1
    /\ Return(r, "ReportErrorN", errNil)
    /\ UNCHANGED <<status, requestVolume, errorVolume, openConfig, callback, callbackCalls,
                   reportedRequests, reportedErrors, closed, panicked,
                   tickerPc, timerWait, sinceOpen>>

\* stay closed: atomic.StoreUint32(&c.errorVolume, v) and return
AddErrorStore(r) ==
    /\ pc[r] = "error_store"
    /\ errorVolume' = v[r]
    /\ Return(r, "ReportErrorN", errNil)
    /\ UNCHANGED <<status, requestVolume, openConfig, callback, callbackCalls,
                   reportedRequests, reportedErrors, closed, panicked,
                   tickerPc, timerNew, timerWait, sinceOpen>>

(***************************************************************************)
(* resetRefreshInterval: the goroutine of the window-reset ticker.         *)
(* The ticker period is not related to the clock of the sleep window: a    *)
(* tick may be waiting in t.C whenever the goroutine reaches its select.   *)
(***************************************************************************)
\* case <-t.C: atomic.StoreUint32(&c.requestVolume, 0)
ResetRequestVolume ==
    /\ tickerPc = "select"
    /\ requestVolume' = 0
    /\ reportedRequests' = -1
    /\ reportedErrors' = -1
    /\ tickerPc' = "reset_error"
    /\ ret' = NoReturn
    /\ UNCHANGED <<status, errorVolume, openConfig, callback, callbackCalls,
                   closed, panicked, pc, arg, v,
                   timerNew, timerWait, sinceOpen>>

\* ResetErrorVolume storing to requestVolume a second time
ResetErrorVolumeWrongCounter ==
    /\ tickerPc = "reset_error"
    /\ requestVolume' = 0
    /\ tickerPc' = "select"
    /\ ret' = NoReturn
    /\ UNCHANGED <<status, errorVolume, openConfig, callback, callbackCalls,
                   reportedRequests, reportedErrors, closed, panicked, pc, arg, v,
                   timerNew, timerWait, sinceOpen>>

\* case <-t.C: atomic.StoreUint32(&c.errorVolume, 0), and back to the select
ResetErrorVolume ==
    /\ tickerPc = "reset_error"
    /\ errorVolume' = 0
    /\ tickerPc' = "select"
    /\ ret' = NoReturn
    /\ UNCHANGED <<status, requestVolume, openConfig, callback, callbackCalls,
                   reportedRequests, reportedErrors, closed, panicked, pc, arg, v,
                   timerNew, timerWait, sinceOpen>>

\* case <-c.closeChan: t.Stop() and return
ResetExit ==
    /\ tickerPc = "select"
    /\ closed
    /\ tickerPc' = "done"
    /\ ret' = NoReturn
    /\ UNCHANGED <<status, requestVolume, errorVolume, openConfig, callback, callbackCalls,
                   reportedRequests, reportedErrors, closed, panicked,
                   pc, arg, v, timerNew, timerWait, sinceOpen>>

(***************************************************************************)
(* waitForSleepWindow: one goroutine per `go c.waitForSleepWindow()`.      *)
(***************************************************************************)
\* timer := time.NewTimer(c.sleepWindow)
NewTimer ==
    /\ timerNew > 0
    /\ timerNew' = timerNew - 1
    /\ timerWait' = [timerWait EXCEPT ![SleepWindow] = @ + 1]
    /\ ret' = NoReturn
    /\ UNCHANGED <<status, requestVolume, errorVolume, openConfig, callback, callbackCalls,
                   reportedRequests, reportedErrors, closed, panicked,
                   pc, arg, v, tickerPc, sinceOpen>>

\* SleepWindowElapsed without its store to c.status
SleepWindowElapsedWithoutStore ==
    /\ timerWait[0] > 0
    /\ timerWait' = [timerWait EXCEPT ![0] = @ - 1]
    /\ ret' = NoReturn
    /\ UNCHANGED <<status, requestVolume, errorVolume, openConfig, callback, callbackCalls,
                   reportedRequests, reportedErrors, closed, panicked,
                   pc, arg, v, tickerPc, timerNew, sinceOpen>>

\* case <-timer.C: atomic.StoreInt32(&c.status, CircuitBreakerStatusHalfOpen)
SleepWindowElapsed ==
    /\ timerWait[0] > 0
    /\ timerWait' = [timerWait EXCEPT ![0] = @ - 1]
    /\ status' = CircuitBreakerStatusHalfOpen
    /\ ret' = NoReturn
    /\ UNCHANGED <<requestVolume, errorVolume, openConfig, callback, callbackCalls,
                   reportedRequests, reportedErrors, closed, panicked,
                   pc, arg, v, tickerPc, timerNew, sinceOpen>>

\* case <-c.closeChan: timer.Stop()
SleepWindowExit ==
    /\ closed
    /\ \E i \in 0..SleepWindow :
           /\ timerWait[i] > 0
           /\ timerWait' = [timerWait EXCEPT ![i] = @ - 1]
    /\ ret' = NoReturn
    /\ UNCHANGED <<status, requestVolume, errorVolume, openConfig, callback, callbackCalls,
                   reportedRequests, reportedErrors, closed, panicked,
                   pc, arg, v, tickerPc, timerNew, sinceOpen>>

\* one tick of the clock: every running timer is one tick closer to firing
Tick ==
    /\ timerWait' = [i \in 0..SleepWindow |->
                         IF i = 0 THEN timerWait[0] + timerWait[1]
                         ELSE IF i = SleepWindow THEN 0
                         ELSE timerWait[i + 1]]
    /\ sinceOpen' = IF sinceOpen < SleepWindow THEN sinceOpen + 1 ELSE sinceOpen
    /\ ret' = NoReturn
    /\ UNCHANGED <<status, requestVolume, errorVolume, openConfig, callback, callbackCalls,
                   reportedRequests, reportedErrors, closed, panicked,
                   pc, arg, v, tickerPc, timerNew>>

(***************************************************************************)
(* Close: close(c.closeChan); closing a closed channel panics.             *)
(***************************************************************************)
Close ==
    /\ IF closed
       THEN panicked' = TRUE /\ UNCHANGED closed
       ELSE closed' = TRUE /\ UNCHANGED panicked
    /\ ret' = NoReturn
    /\ UNCHANGED <<status, requestVolume, errorVolume, openConfig, callback, callbackCalls,
                   reportedRequests, reportedErrors, pc, arg, v,
                   tickerPc, timerNew, timerWait, sinceOpen>>

(***************************************************************************)
(* The breaker: any goroutine takes its next step, until a panic.          *)
(***************************************************************************)
\* a reporter calls into the breaker
Call(r) ==
    \/ \E n \in 0..MaxN : ReportRequestN(r, n)
    \/ \E n \in 0..MaxN : ReportErrorN(r, n)

\* a reporter takes the next step of the call it is in
Proceed(r) ==
    \/ AddRequestLoad(r)
    \/ AddRequestAdd(r)
    \/ AddRequestStore(r)
    \/ AddErrorLoad(r)
    \/ HalfOpenStore(r)
    \/ HalfOpenGo(r)
    \/ AddErrorAdd(r)
    \/ CheckVolume(r)
    \/ CheckQuorum(r)
    \/ OpenStore(r)
    \/ OpenGo(r)
    \/ AddErrorStore(r)

Reporter(r) == Call(r) \/ Proceed(r)

resetRefreshInterval == ResetRequestVolume \/ ResetErrorVolume \/ ResetExit

waitForSleepWindow == NewTimer \/ SleepWindowElapsed \/ SleepWindowExit

Next ==
    /\ ~panicked
    /\ \/ \E r \in Reporters : Reporter(r)
       \/ resetRefreshInterval
       \/ waitForSleepWindow
       \/ Tick
       \/ Close

Spec == Init /\ [][Next]_vars

\* the schedules in which the handlers run one at a time: a goroutine takes a
\* step that reads or writes the breaker only while no other goroutine is
\* inside a report call or inside a window reset
Alone(r) ==
    /\ \A u \in Reporters \ {r} : pc[u] = "idle"
    /\ r \in Reporters => tickerPc # "reset_error"

SeqNext ==
    /\ ~panicked
    /\ \/ \E r \in Reporters : Alone(r) /\ Reporter(r)
       \/ Alone("ticker") /\ resetRefreshInterval
       \/ Alone("timer") /\ tickerPc # "reset_error" /\ waitForSleepWindow
       \/ Tick
       \/ Close

SeqSpec == SeqInit /\ [][SeqNext]_vars

\* the Go scheduler runs every runnable goroutine, and the clock advances;
\* nothing obliges a caller to call, nor the ticker period to elapse
Fairness ==
    /\ WF_vars(~panicked /\ Tick)
    /\ WF_vars(~panicked /\ waitForSleepWindow)
    /\ \A r \in Reporters : WF_vars(~panicked /\ Proceed(r))

LiveSpec == Init /\ [][Next]_vars /\ Fairness

\* the breaker with the reported n summed up until the first window reset
CountSpec == CountInit /\ [][Next]_vars

\* the schedules in which the report calls do not overlap one another, while
\* the ticker and the timers run at any moment of a call
WindowNext ==
    /\ ~panicked
    /\ \/ \E r \in Reporters :
              /\ \A u \in Reporters \ {r} : pc[u] = "idle"
              /\ Reporter(r)
       \/ resetRefreshInterval
       \/ waitForSleepWindow
       \/ Tick
       \/ Close

WindowSpec == Init /\ [][WindowNext]_vars

TypeOK ==
    /\ status \in {CircuitBreakerStatusClosed, CircuitBreakerStatusOpen,
                   CircuitBreakerStatusHalfOpen}
    /\ requestVolume \in 0..MaxVolume
    /\ errorVolume \in 0..MaxVolume
    /\ NumTimers <= MaxTimers

(***************************************************************************)
(* Vocabulary of the properties.                                           *)
(***************************************************************************)
Closed == status = CircuitBreakerStatusClosed
Open == status = CircuitBreakerStatusOpen
HalfOpen == status = CircuitBreakerStatusHalfOpen

\* errorVolume / requestVolume >= ErrorThresholdPercent / 100, in integers
RatioReached == errorVolume * 100 >= openConfig.ErrorThresholdPercent * requestVolume
VolumeReached == requestVolume >= openConfig.RequestVolumeThreshold
ErrorVolumeReached == errorVolume >= openConfig.errorVolumeThreshold

\* reporter r returns from a call of op in this step
Returns(r, op) == ret'.who = r /\ ret'.op = op
\* reporter r returns in this step from a ReportErrorN(n), n >= 1, that found the status Closed
ClosedErrorReturns(r) ==
    /\ pc[r] \in {"error_store", "open_go"}
    /\ Returns(r, "ReportErrorN")
\* reporter r returns in this step from a call that ran while the status was Closed
ClosedReportReturns(r) ==
    /\ ret'.who = r
    /\ \/ pc[r] \in {"error_store", "open_go"}
       \/ pc[r] = "request_store" /\ Closed

(***************************************************************************)
(* C1.  Calls made one at a time on a Closed breaker that is not shut      *)
(* down: as soon as a call leaves the counters with                        *)
(* errorVolume/requestVolume >= errorThresholdPercent/100 and              *)
(* requestVolume >= requestVolumeThreshold, the status is Open.            *)
(***************************************************************************)
\* C1 as claimed, for whichever report completes the condition
C1_OpenAsSoonAsReached ==
    [][\A r \in Reporters :
          (ClosedReportReturns(r) /\ RatioReached' /\ VolumeReached') => Open']_vars

\* C1 as amended: the condition is evaluated by the error reports alone
C1_OpenOnErrorReport ==
    [][\A r \in Reporters :
          (ClosedErrorReturns(r) /\ RatioReached' /\ VolumeReached') => Open']_vars

\* an error report has just opened the breaker on the two thresholds
C1_Witness ==
    /\ Open
    /\ ret.op = "ReportErrorN"
    /\ RatioReached /\ VolumeReached
    /\ requestVolume > errorVolume

(***************************************************************************)
(* C2.  Volume floor: the status never goes from Closed to Open while      *)
(* requestVolume is below requestVolumeThreshold, under any interleaving   *)
(* of reporters and the window-reset ticker.                               *)
(***************************************************************************)
\* C2: every step from Closed to Open is taken with requestVolume at or above the threshold
C2_VolumeFloor == [][(Closed /\ Open') => VolumeReached']_vars

(***************************************************************************)
(* C3.  Calls made one at a time: an error report on a Closed breaker      *)
(* that leaves errorVolume >= errorVolumeThreshold and                     *)
(* requestVolume >= requestVolumeThreshold opens the breaker.              *)
(***************************************************************************)
\* C3 as claimed: the two precomputed thresholds suffice
C3_OpenOnTwoThresholds ==
    [][\A r \in Reporters :
          (ClosedErrorReturns(r) /\ ErrorVolumeReached' /\ VolumeReached') => Open']_vars

\* C3 as amended: errorVolume must also reach the quorum of the current volume
C3_OpenOnThresholdsAndQuorum ==
    [][\A r \in Reporters :
          (/\ ClosedErrorReturns(r)
           /\ ErrorVolumeReached' /\ VolumeReached'
           /\ errorVolume' >= PercentOf(requestVolume', openConfig.ErrorThresholdPercent))
          => Open']_vars

\* the breaker has opened with more requests than the threshold
C3_Witness ==
    /\ Open
    /\ ret.op = "ReportErrorN"
    /\ requestVolume > openConfig.RequestVolumeThreshold
    /\ ErrorVolumeReached

(***************************************************************************)
(* C4.  While the status is Open, ReportRequestN returns errTooManyErrors  *)
(* and leaves requestVolume and errorVolume unchanged.                     *)
(***************************************************************************)
\* C4 as claimed: every ReportRequestN that returns having found the status Open
C4_RejectedWhileOpen ==
    [][\A r \in Reporters :
          (/\ Open
           /\ pc[r] \in {"idle", "request_load"}
           /\ Returns(r, "ReportRequestN"))
          => /\ ret'.err = errTooManyErrors
             /\ UNCHANGED <<requestVolume, errorVolume>>]_vars

\* C4 as amended: a call that passed the closeChan check is rejected with
\* errTooManyErrors, a call on a shut-down breaker with errCircuitBreakerClosed;
\* neither touches the counters
C4_RejectedWhileOpenUnlessShutDown ==
    [][\A r \in Reporters :
          Open =>
            /\ (pc[r] = "request_load" /\ pc'[r] # "request_load")
               => /\ Returns(r, "ReportRequestN")
                  /\ ret'.err = errTooManyErrors
                  /\ UNCHANGED <<requestVolume, errorVolume>>
            /\ (pc[r] = "idle" /\ Returns(r, "ReportRequestN"))
               => /\ closed
                  /\ ret'.err = errCircuitBreakerClosed
                  /\ UNCHANGED <<requestVolume, errorVolume>>]_vars

\* a request has just been rejected by an Open breaker that is not shut down
C4_Witness ==
    /\ Open
    /\ ~closed
    /\ ret.op = "ReportRequestN"
    /\ ret.err = errTooManyErrors

(***************************************************************************)
(* C5.  The status stays Open for a full sleep window after the most       *)
(* recent entry into Open: no step takes it from Open to HalfOpen earlier. *)
(***************************************************************************)
\* C5: every step from Open to HalfOpen is taken a full sleep window after the entry into Open
C5_OpenForSleepWindow == [][(Open /\ HalfOpen') => sinceOpen = SleepWindow]_vars

(***************************************************************************)
(* C6.  Liveness: an Open breaker that is never shut down eventually       *)
(* becomes HalfOpen.                                                       *)
(***************************************************************************)
\* C6: Open leads to HalfOpen, unless the breaker is shut down
C6_OpenLeadsToHalfOpen == Open ~> (HalfOpen \/ closed)

\* the sleep window of a live breaker has elapsed
C6_Witness == HalfOpen /\ ~closed /\ timerNew = 0 /\ timerWait[0] = 0

(***************************************************************************)
(* C7.  A ReportErrorN(n), n >= 1, that found the status HalfOpen leaves   *)
(* the status Open when it returns, with a new waitForSleepWindow          *)
(* goroutine started.                                                      *)
(***************************************************************************)
\* C7: the call returns with the status Open and one more timer goroutine
C7_ReopenedOnReturn ==
    [][\A r \in Reporters :
          (pc[r] = "halfopen_go" /\ Returns(r, "ReportErrorN"))
          => (Open' /\ timerNew' = timerNew + 1)]_vars

(***************************************************************************)
(* C8.  A HalfOpen breaker whose probes keep succeeding (requests keep     *)
(* being admitted and no error is reported any more) becomes Closed.       *)
(***************************************************************************)
\* a probe has just been admitted, the probe volume is at the success volume
\* threshold and the window holds no error
ProbeAdmitted ==
    /\ HalfOpen
    /\ ret.op = "ReportRequestN" /\ ret.err = errNil
    /\ requestVolume >= SuccessVolumeThreshold
    /\ errorVolume = 0
ErrorReported == ret.op = "ReportErrorN"

\* C8: if probes are admitted again and again and errors stop being reported,
\* a HalfOpen breaker eventually is Closed
C8_HalfOpenLeadsToClosed ==
    ([]<>ProbeAdmitted /\ <>[]~ErrorReported) => (HalfOpen ~> Closed)

(***************************************************************************)
(* C9.  A window reset on a Closed breaker stores 0 to requestVolume and   *)
(* to errorVolume and leaves the status unchanged.                         *)
(***************************************************************************)
\* C9: the first store of a reset zeroes requestVolume, the second errorVolume;
\* each leaves the status Closed and the other counter as it was
C9_WindowReset ==
    [][Closed =>
         /\ (tickerPc = "select" /\ tickerPc' = "reset_error")
            => (requestVolume' = 0 /\ Closed' /\ errorVolume' = errorVolume)
         /\ (tickerPc = "reset_error" /\ tickerPc' = "select")
            => (errorVolume' = 0 /\ Closed' /\ requestVolume' = requestVolume)]_vars

\* a window reset has just zeroed counters that were not zero
C9_Witness ==
    /\ Closed
    /\ tickerPc = "select"
    /\ requestVolume = 0 /\ errorVolume = 0
    /\ \E r \in Reporters : pc[r] = "error_store" /\ v[r] > 0

(***************************************************************************)
(* C10.  Close is idempotent: a second call does not panic.                *)
(***************************************************************************)
\* C10: no call of Close panics
C10_CloseTwice == ~panicked

(***************************************************************************)
(* C11. Every ReportRequestN / ReportErrorN call that starts after Close   *)
(* has returned fails with errCircuitBreakerClosed and changes neither the *)
(* status nor requestVolume nor errorVolume, whatever the status at Close. *)
(***************************************************************************)
\* C11: a step a reporter takes from outside a call, on a breaker whose
\* closeChan is closed, is a return of errCircuitBreakerClosed that leaves
\* status, requestVolume and errorVolume as they were
C11_FailsAfterShutdown ==
    [][\A r \in Reporters :
          (closed /\ pc[r] = "idle" /\ (pc'[r] # "idle" \/ ret'.who = r))
          => /\ pc'[r] = "idle"
             /\ ret'.who = r
             /\ ret'.err = errCircuitBreakerClosed
             /\ UNCHANGED <<status, requestVolume, errorVolume>>]_vars

\* an error report has failed with the shutdown error on a HalfOpen breaker
\* that holds counts
C11_Witness ==
    /\ closed
    /\ HalfOpen
    /\ requestVolume > 0
    /\ ret.op = "ReportErrorN"
    /\ ret.err = errCircuitBreakerClosed

(***************************************************************************)
(* C12. After Close has returned no timer action takes effect: the         *)
(* window-reset ticker zeroes no counter and no sleep-window timer sets    *)
(* the status to HalfOpen, even when an expiry was pending at Close.       *)
(***************************************************************************)
\* C12: once closeChan is closed, no step takes the status to HalfOpen and no
\* step of the ticker goroutine's reset changes requestVolume or errorVolume
C12_NoTimerEffectAfterShutdown ==
    [][closed =>
          /\ (~HalfOpen => ~HalfOpen')
          /\ (tickerPc' # tickerPc /\ tickerPc' # "done")
                 => UNCHANGED <<requestVolume, errorVolume>>]_vars

(***************************************************************************)
(* C13. Of several concurrent ReportErrorN callers that observe the same   *)
(* crossing, exactly one performs the transition to Open and arms one      *)
(* sleep-window timer, so at most one sleep-window timer is pending at any *)
(* time.                                                                   *)
(***************************************************************************)
\* C13: at most one waitForSleepWindow goroutine exists at any time
C13_OneTimerPending == NumTimers <= 1

(***************************************************************************)
(* C14. No report is lost: after any interleaving of concurrent            *)
(* ReportRequestN(n) and non-tripping ReportErrorN(n) calls with no window *)
(* reset in between, requestVolume is the sum of the reported request n    *)
(* and errorVolume the sum of the reported error n.                        *)
(***************************************************************************)
\* C14: on a breaker that has stayed Closed and has had no window reset, when
\* no call is in progress the counters are the sums of the reported n
C14_NoReportLost ==
    (/\ Closed
     /\ reportedRequests >= 0
     /\ \A r \in Reporters : pc[r] = "idle")
    => (requestVolume = reportedRequests /\ errorVolume = reportedErrors)

(***************************************************************************)
(* C15. Every report is counted in exactly one statistical window: once    *)
(* the ticker has zeroed the counters, a report that began before the      *)
(* reset contributes nothing to requestVolume or errorVolume of the new    *)
(* window; a reset is never undone by a concurrent report.                 *)
(***************************************************************************)
\* C15: with no other report in progress, the step that ends a report, after
\* its n has been added, raises neither requestVolume nor errorVolume
C15_ResetNotUndone ==
    [][\A r \in Reporters :
          ret'.who = r =>
              /\ requestVolume' <= requestVolume
              /\ errorVolume' <= errorVolume]_vars

(***************************************************************************)
(* C16. The window reset zeroes requestVolume and errorVolume as one       *)
(* atomic unit: no report and no threshold evaluation interleaved with a   *)
(* reset observes one counter already zeroed while the other still holds   *)
(* its pre-reset value.                                                    *)
(***************************************************************************)
\* C16: no threshold evaluation that has found requestVolume at its threshold
\* goes on to read it for the quorum between the two stores of a reset, when
\* requestVolume is zeroed and errorVolume still holds its pre-reset value
C16_ResetIsOneUnit ==
    [][\A r \in Reporters :
          (/\ pc[r] = "check_quorum"
           /\ tickerPc = "reset_error"
           /\ requestVolume = 0
           /\ errorVolume > 0)
          => pc'[r] = pc[r]]_vars

(***************************************************************************)
(* C17. When a transition callback is configured, it is invoked on every   *)
(* Closed -> Open transition and on every HalfOpen -> Closed transition.   *)
(***************************************************************************)
\* C17: with c.callback set, every step that takes the status from Closed to
\* Open or from HalfOpen to Closed invokes the callback once
C17_CallbackOnTransition ==
    [][(callback /\ ((Closed /\ Open') \/ (HalfOpen /\ Closed')))
          => callbackCalls' = callbackCalls + 1]_vars

(***************************************************************************)
(* C18. The window-reset ticker acts only while the status is Closed:      *)
(* while the status is Open or HalfOpen no window reset zeroes             *)
(* requestVolume or errorVolume, and the ticker and a sleep-window timer   *)
(* are never active at the same time.                                      *)
(***************************************************************************)
\* C18: while the status is Open or HalfOpen no step of the ticker
\* goroutine's reset changes requestVolume or errorVolume
C18_ResetOnlyWhileClosed ==
    [][(~Closed /\ tickerPc' # tickerPc /\ tickerPc' # "done")
          => UNCHANGED <<requestVolume, errorVolume>>]_vars

(***************************************************************************)
(* C19. When the sleep-window timer fires and the breaker goes from Open   *)
(* to HalfOpen, the probe counters are reset: requestVolume and            *)
(* errorVolume are 0 on entry to HalfOpen.                                 *)
(***************************************************************************)
\* C19: every step that takes the status from Open to HalfOpen leaves
\* requestVolume and errorVolume at 0
C19_ProbeCountersReset ==
    [][(Open /\ HalfOpen') => (requestVolume' = 0 /\ errorVolume' = 0)]_vars

(***************************************************************************)
(* C20. ReportErrorN(0) is a no-op in every status: it leaves the status,  *)
(* requestVolume and errorVolume unchanged and arms no timer; it does not  *)
(* reopen a HalfOpen breaker.                                              *)
(***************************************************************************)
\* C20: the first step of a ReportErrorN(0) call is its return, and it leaves
\* status, requestVolume, errorVolume and the sleep-window timers as they were
C20_ZeroErrorsNoOp ==
    [][\A r \in Reporters :
          (/\ pc[r] = "idle"
           /\ \/ ret'.who = r /\ ret'.op = "ReportErrorN"
              \/ pc'[r] = "error_load" /\ arg'[r] = 0)
          => /\ pc'[r] = "idle"
             /\ UNCHANGED <<status, requestVolume, errorVolume, timerNew, timerWait>>]_vars

\* ReportErrorN(0) has returned nil on a HalfOpen breaker: no other error
\* report returns with the status HalfOpen, errorVolume 0 and no timer armed
C20_Witness ==
    /\ HalfOpen
    /\ ~closed
    /\ ret.op = "ReportErrorN"
    /\ ret.err = errNil
    /\ errorVolume = 0
    /\ NumTimers = 0

====
